---- MODULE Spec2Model ----
(***************************************************************************)
(* Model of src/jni/Echo.cpp: the native TCP echo server entry point       *)
(* (nativeStartTcpServer) and the client entry point                       *)
(* (nativeStartTcpClient), together with the helpers they call.            *)
(*                                                                         *)
(* One behaviour is one invocation of one entry point.  The operating      *)
(* system is the environment: the result of every socket call is chosen    *)
(* nondeterministically among the results the call can produce.            *)
(***************************************************************************)
EXTENDS Integers, Sequences, FiniteSets

VARIABLES
    entry,          \* which entry point was invoked: "server" or "client"
    port,           \* the jint port argument
    pc,             \* position inside the entry point
    serverSocket,   \* local of nativeStartTcpServer
    clientSocket,   \* local of either entry point
    recvSize,       \* local of nativeStartTcpServer
    sentSize,       \* local of nativeStartTcpServer
    buffer,         \* char buffer[MAX_BUFFER_SIZE], indexed 0..79
    thrown,         \* exceptions raised through env->ThrowNew, in order
    log,            \* messages handed to the Java logMessage callback
    calls,          \* socket system calls issued so far, in order
    listening,      \* OS: open descriptors made by socket()
    accepted,       \* OS: open descriptors made by accept()
    boundPort,      \* OS: local port of the listening socket (0 = unbound)
    chunksLeft,     \* peer: chunks the client may still send
    terminated      \* indices at which buffer[recvSize] = NULL was executed

vars == << entry, port, pc, serverSocket, clientSocket, recvSize, sentSize,
           buffer, thrown, log, calls, listening, accepted, boundPort,
           chunksLeft, terminated >>

-----------------------------------------------------------------------------
(* Program constants *)

MAX_BUFFER_SIZE == 80

Backlog == 4

Failure == -1

UShortRange == 65536

-----------------------------------------------------------------------------
(* Bounds of the environment *)

\* descriptors the OS hands out are 0..MaxFd
MaxFd == 1

\* the peer sends at most this many chunks before it closes or fails
MaxChunks == 2

\* receive lengths explored: the ChunkEdge smallest and ChunkEdge largest
\* lengths the request allows
ChunkEdge == 1

\* jint values handed to the server entry point
PortValues == { 0, 5000, 65536, 70536, -1 }

\* ports the OS allocates for an ephemeral bind
EphemeralPorts == { 49152 }

\* first byte of a chunk sent by the peer; byte i is (seed + i) mod 256
ByteSeeds == { 65, 200 }

\* content of a buffer cell that was never written
Indet == -1

Unset == -2

-----------------------------------------------------------------------------
(* Helpers *)

Call(op, fd, arg, ret, data) ==
    [ op |-> op, fd |-> fd, arg |-> arg, ret |-> ret, data |-> data ]

Msg(fmt, args) == [ fmt |-> fmt, args |-> args ]

\* ThrowErrnoException -> ThrowException -> env->ThrowNew
ThrowErrnoException(thr, at) ==
    Append(thr, [ cls |-> "java/io/IOException", at |-> at ])

\* env->ExceptionOccurred() != NULL
ExceptionOccurred(thr) == thr # << >>

\* (unsigned short) port
BindPortArg(p) == p % UShortRange

\* if (0 == port)
NeedsDiscover(p) == 0 = p

\* if (serverSocket > 0)
ExitCloses_always(sd) == TRUE
ExitCloses(sd) == sd > 0

\* recv(sd, buffer, bufferSize - 1, 0)
RecvRequest_full(bufferSize) == bufferSize
RecvRequest(bufferSize) == bufferSize - 1

\* if ((0 == recvSize) || (NULL != env->ExceptionOccurred())) break;
RecvBreak_always(n, thr) == TRUE
RecvBreak_zeroOnly(n, thr) == 0 = n
RecvBreak_excOnly(n, thr) == ExceptionOccurred(thr)
RecvBreak(n, thr) == (0 = n) \/ ExceptionOccurred(thr)

\* if ((0 == sentSize) || (NULL != env->ExceptionOccurred())) break;
SendBreak_always(n, thr) == TRUE
SendBreak(n, thr) == (0 = n) \/ ExceptionOccurred(thr)

\* (size_t) recvSize, the length handed to send
SendLen_buffer(n) == MAX_BUFFER_SIZE
SendLen_short(n) == n - 1
SendLen(n) == n

\* the first len bytes of the buffer, as send reads them
Payload(buf, len) == [ i \in 1..len |-> buf[i - 1] ]

\* the buffer read as a C string: the bytes before the first NUL
CStr(buf) ==
    LET nuls == { i \in DOMAIN buf : buf[i] = 0 }
        end  == IF nuls = {} THEN MAX_BUFFER_SIZE
                ELSE CHOOSE i \in nuls : \A j \in nuls : i <= j
    IN  [ i \in 1..end |-> buf[i - 1] ]

\* bytes of a chunk of length n sent by the peer
Chunk(seed, n) == [ i \in 1..n |-> (seed + i - 1) % 256 ]

\* what recv leaves in the buffer: n bytes of data from index 0
Deliver(buf, data) ==
    [ i \in DOMAIN buf |-> IF i < Len(data) THEN data[i + 1] ELSE buf[i] ]

\* buffer[recvSize] = NULL
Terminate(buf, n) == [ buf EXCEPT ![n] = 0 ]

\* results of socket(): a descriptor not in use, or the failure value
SocketResults == { Failure } \cup ((0..MaxFd) \ (listening \cup accepted))

\* positive lengths recv may return for a request of req bytes
RecvLengths(req) ==
    { n \in 1..req : n <= ChunkEdge \/ n > req - ChunkEdge }

\* results of send() for len bytes: failure, zero, a short or a full count
SendResults(len) == { Failure, 0 } \cup { m \in { 1, len } : m >= 1 /\ m <= len }

-----------------------------------------------------------------------------
Init ==
    /\ entry \in { "server", "client" }
    /\ port \in PortValues
    /\ pc = "socket"
    /\ serverSocket = Unset
    /\ clientSocket = Unset
    /\ recvSize = Unset
    /\ sentSize = Unset
    /\ buffer = [ i \in 0..(MAX_BUFFER_SIZE - 1) |-> Indet ]
    /\ thrown = << >>
    /\ log = << >>
    /\ calls = << >>
    /\ listening = {}
    /\ accepted = {}
    /\ boundPort = 0
    /\ chunksLeft = MaxChunks
    /\ terminated = << >>

-----------------------------------------------------------------------------
(* nativeStartTcpServer *)

\* int serverSocket = NewTcpSocket(env, obj); if (NULL == ExceptionOccurred())
Server_NewTcpSocket ==
    /\ entry = "server"
    /\ pc = "socket"
    /\ \E sd \in SocketResults :
        LET thr == IF sd = Failure THEN ThrowErrnoException(thrown, "socket")
                   ELSE thrown
        IN  /\ log' = Append(log, Msg("Constructing a new TCP socket...", << >>))
            /\ calls' = Append(calls, Call("socket", Unset, 0, sd, << >>))
            /\ listening' = IF sd = Failure THEN listening ELSE listening \cup { sd }
            /\ thrown' = thr
            /\ serverSocket' = sd
            /\ pc' = IF ExceptionOccurred(thr) THEN "exit" ELSE "bind"
    /\ UNCHANGED << entry, port, clientSocket, recvSize, sentSize, buffer,
                    accepted, boundPort, chunksLeft, terminated >>

\* BindSocketToPort(env, obj, serverSocket, (unsigned short) port);
\* if exception goto exit; if (0 == port) ...
Server_Bind ==
    /\ entry = "server"
    /\ pc = "bind"
    /\ \E ret \in { 0, Failure } : \E eph \in EphemeralPorts :
        LET p   == BindPortArg(port)
            thr == IF ret = Failure THEN ThrowErrnoException(thrown, "bind")
                   ELSE thrown
        IN  /\ log' = Append(log, Msg("Binding to port %hu.", << p >>))
            /\ calls' = Append(calls, Call("bind", serverSocket, p, ret, << >>))
            /\ boundPort' = IF ret = Failure THEN boundPort
                            ELSE IF p = 0 THEN eph ELSE p
            /\ thrown' = thr
            /\ pc' = IF ExceptionOccurred(thr) THEN "exit"
                     ELSE IF NeedsDiscover(port) THEN "discover"
                     ELSE "listen"
    /\ UNCHANGED << entry, port, serverSocket, clientSocket, recvSize,
                    sentSize, buffer, listening, accepted, chunksLeft, terminated >>

\* GetSocketPort(env, obj, serverSocket); if exception goto exit;
Server_Discover ==
    /\ entry = "server"
    /\ pc = "discover"
    /\ \E ret \in { 0, Failure } :
        LET thr == IF ret = Failure
                   THEN ThrowErrnoException(thrown, "getsockname")
                   ELSE thrown
        IN  /\ calls' = Append(calls,
                   Call("getsockname", serverSocket, 0,
                        IF ret = Failure THEN Failure ELSE boundPort, << >>))
            /\ log' = IF ret = Failure THEN log
                      ELSE Append(log, Msg("Binded to random port %hu.",
                                           << boundPort >>))
            /\ thrown' = thr
            /\ pc' = IF ExceptionOccurred(thr) THEN "exit" ELSE "listen"
    /\ UNCHANGED << entry, port, serverSocket, clientSocket, recvSize,
                    sentSize, buffer, listening, accepted, boundPort,
                    chunksLeft, terminated >>

\* ListenOnSocket(env, obj, serverSocket, 4); if exception goto exit;
Server_Listen ==
    /\ entry = "server"
    /\ pc = "listen"
    /\ \E ret \in { 0, Failure } :
        LET thr == IF ret = Failure THEN ThrowErrnoException(thrown, "listen")
                   ELSE thrown
        IN  /\ log' = Append(log,
                   Msg("Listening on socket with a backlog of %d pending connections.",
                       << Backlog >>))
            /\ calls' = Append(calls,
                   Call("listen", serverSocket, Backlog, ret, << >>))
            /\ thrown' = thr
            /\ pc' = IF ExceptionOccurred(thr) THEN "exit" ELSE "accept"
    /\ UNCHANGED << entry, port, serverSocket, clientSocket, recvSize,
                    sentSize, buffer, listening, accepted, boundPort,
                    chunksLeft, terminated >>

Server_Accept_dropsFd ==
    /\ entry = "server"
    /\ pc = "accept"
    /\ \E cs \in SocketResults : \E ntop \in { "ok", "null" } :
        LET thr == IF cs = Failure THEN ThrowErrnoException(thrown, "accept")
                   ELSE IF ntop = "null"
                   THEN ThrowErrnoException(thrown, "inet_ntop")
                   ELSE thrown
            lg1 == Append(log, Msg("Waiting for a client connection...", << >>))
        IN  /\ calls' = Append(calls,
                   Call("accept", serverSocket, 0, cs, << >>))
            /\ accepted' = IF cs = Failure THEN accepted ELSE accepted \cup { cs }
            /\ log' = IF cs # Failure /\ ntop = "ok"
                      THEN Append(lg1, Msg("%s %s:%hu.",
                                           << "Client connection from " >>))
                      ELSE lg1
            /\ thrown' = thr
            /\ clientSocket' = IF ntop = "null" THEN Failure ELSE cs
            /\ pc' = IF ExceptionOccurred(thr) THEN "exit" ELSE "recv"
    /\ UNCHANGED << entry, port, serverSocket, recvSize, sentSize, buffer,
                    listening, boundPort, chunksLeft, terminated >>

\* int clientSocket = AcceptOnSocket(env, obj, serverSocket);
\* (AcceptOnSocket calls LogAddress on success); if exception goto exit;
Server_Accept ==
    /\ entry = "server"
    /\ pc = "accept"
    /\ \E cs \in SocketResults : \E ntop \in { "ok", "null" } :
        LET thr == IF cs = Failure THEN ThrowErrnoException(thrown, "accept")
                   ELSE IF ntop = "null"
                   THEN ThrowErrnoException(thrown, "inet_ntop")
                   ELSE thrown
            lg1 == Append(log, Msg("Waiting for a client connection...", << >>))
        IN  /\ calls' = Append(calls,
                   Call("accept", serverSocket, 0, cs, << >>))
            /\ accepted' = IF cs = Failure THEN accepted ELSE accepted \cup { cs }
            /\ log' = IF cs # Failure /\ ntop = "ok"
                      THEN Append(lg1, Msg("%s %s:%hu.",
                                           << "Client connection from " >>))
                      ELSE lg1
            /\ thrown' = thr
            /\ clientSocket' = cs
            /\ pc' = IF ExceptionOccurred(thr) THEN "exit" ELSE "recv"
    /\ UNCHANGED << entry, port, serverSocket, recvSize, sentSize, buffer,
                    listening, boundPort, chunksLeft, terminated >>

\* recvSize = ReceiveFromSocket(env, obj, clientSocket, buffer, MAX_BUFFER_SIZE);
\* if ((0 == recvSize) || exception) break;
Server_Receive ==
    /\ entry = "server"
    /\ pc = "recv"
    /\ LET req == RecvRequest(MAX_BUFFER_SIZE)
       IN \E n \in { Failure, 0 } \cup RecvLengths(req) : \E seed \in ByteSeeds :
            LET data == IF n > 0 THEN Chunk(seed, n) ELSE << >>
                buf  == IF n = Failure THEN buffer
                        ELSE Terminate(Deliver(buffer, data), n)
                thr  == IF n = Failure THEN ThrowErrnoException(thrown, "recv")
                        ELSE thrown
                lg1  == Append(log, Msg("Receiving from the socket...", << >>))
            IN  /\ n > 0 => chunksLeft > 0
                /\ chunksLeft' = IF n > 0 THEN chunksLeft - 1 ELSE chunksLeft
                /\ calls' = Append(calls,
                       Call("recv", clientSocket, req, n, data))
                /\ buffer' = buf
                /\ terminated' = IF n = Failure THEN terminated
                                  ELSE Append(terminated, n)
                /\ log' = IF n = Failure THEN lg1
                          ELSE IF n > 0
                          THEN Append(lg1, Msg("Received %d bytes: %s",
                                               << n, CStr(buf) >>))
                          ELSE Append(lg1, Msg("Client disconnected.", << >>))
                /\ thrown' = thr
                /\ recvSize' = n
                /\ pc' = IF RecvBreak(n, thr) THEN "closeClient" ELSE "send"
    /\ UNCHANGED << entry, port, serverSocket, clientSocket, sentSize,
                    listening, accepted, boundPort >>

\* sentSize = SendToSocket(env, obj, clientSocket, buffer, (size_t) recvSize);
\* if ((0 == sentSize) || exception) break;
Server_Send ==
    /\ entry = "server"
    /\ pc = "send"
    /\ LET len == SendLen(recvSize)
       IN \E m \in SendResults(len) :
            LET thr == IF m = Failure THEN ThrowErrnoException(thrown, "send")
                       ELSE thrown
                lg1 == Append(log, Msg("Sending to the socket...", << >>))
            IN  /\ calls' = Append(calls,
                       Call("send", clientSocket, len, m, Payload(buffer, len)))
                /\ log' = IF m = Failure THEN lg1
                          ELSE IF m > 0
                          THEN Append(lg1, Msg("Sent %d bytes: %s",
                                               << m, CStr(buffer) >>))
                          ELSE Append(lg1, Msg("Client disconnected.", << >>))
                /\ thrown' = thr
                /\ sentSize' = m
                /\ pc' = IF SendBreak(m, thr) THEN "closeClient" ELSE "recv"
    /\ UNCHANGED << entry, port, serverSocket, clientSocket, recvSize, buffer,
                    listening, accepted, boundPort, chunksLeft, terminated >>

\* close(clientSocket); after the while loop
Server_CloseClient_again ==
    /\ entry = "server"
    /\ pc = "closeClient"
    /\ calls' = Append(calls, Call("close", clientSocket, 0, 0, << >>))
    /\ accepted' = accepted \ { clientSocket }
    /\ listening' = listening \ { clientSocket }
    /\ pc' = IF ExceptionOccurred(thrown) THEN "exit" ELSE "accept"
    /\ UNCHANGED << entry, port, serverSocket, clientSocket, recvSize,
                    sentSize, buffer, thrown, log, boundPort, chunksLeft, terminated >>

Server_CloseClient_wrongFd ==
    /\ entry = "server"
    /\ pc = "closeClient"
    /\ calls' = Append(calls, Call("close", serverSocket, 0, 0, << >>))
    /\ accepted' = accepted \ { serverSocket }
    /\ listening' = listening \ { serverSocket }
    /\ pc' = "exit"
    /\ UNCHANGED << entry, port, serverSocket, clientSocket, recvSize,
                    sentSize, buffer, thrown, log, boundPort, chunksLeft,
                    terminated >>

Server_CloseClient ==
    /\ entry = "server"
    /\ pc = "closeClient"
    /\ calls' = Append(calls, Call("close", clientSocket, 0, 0, << >>))
    /\ accepted' = accepted \ { clientSocket }
    /\ listening' = listening \ { clientSocket }
    /\ pc' = "exit"
    /\ UNCHANGED << entry, port, serverSocket, clientSocket, recvSize,
                    sentSize, buffer, thrown, log, boundPort, chunksLeft, terminated >>

\* exit: if (serverSocket > 0) close(serverSocket);
Server_Exit ==
    /\ entry = "server"
    /\ pc = "exit"
    /\ IF ExitCloses(serverSocket)
       THEN /\ calls' = Append(calls,
                   Call("close", serverSocket, 0,
                        IF serverSocket \in listening \cup accepted
                        THEN 0 ELSE Failure, << >>))
            /\ listening' = listening \ { serverSocket }
            /\ accepted' = accepted \ { serverSocket }
       ELSE UNCHANGED << calls, listening, accepted >>
    /\ pc' = "done"
    /\ UNCHANGED << entry, port, serverSocket, clientSocket, recvSize,
                    sentSize, buffer, thrown, log, boundPort, chunksLeft, terminated >>

-----------------------------------------------------------------------------
(* nativeStartTcpClient *)

Client_NewTcpSocket_positive ==
    /\ entry = "client"
    /\ pc = "socket"
    /\ \E sd \in SocketResults :
        LET thr == IF sd = Failure THEN ThrowErrnoException(thrown, "socket")
                   ELSE thrown
        IN  /\ log' = Append(log, Msg("Constructing a new TCP socket...", << >>))
            /\ calls' = Append(calls, Call("socket", Unset, 0, sd, << >>))
            /\ listening' = IF sd = Failure THEN listening
                            ELSE listening \cup { sd }
            /\ thrown' = thr
            /\ clientSocket' = sd
            /\ pc' = IF sd > 0 THEN "clientClose" ELSE "done"
    /\ UNCHANGED << entry, port, serverSocket, recvSize, sentSize, buffer,
                    accepted, boundPort, chunksLeft, terminated >>

\* int clientSocket = NewTcpSocket(env, obj); if (NULL == ExceptionOccurred())
Client_NewTcpSocket ==
    /\ entry = "client"
    /\ pc = "socket"
    /\ \E sd \in SocketResults :
        LET thr == IF sd = Failure THEN ThrowErrnoException(thrown, "socket")
                   ELSE thrown
        IN  /\ log' = Append(log, Msg("Constructing a new TCP socket...", << >>))
            /\ calls' = Append(calls, Call("socket", Unset, 0, sd, << >>))
            /\ listening' = IF sd = Failure THEN listening ELSE listening \cup { sd }
            /\ thrown' = thr
            /\ clientSocket' = sd
            /\ pc' = IF ExceptionOccurred(thr) THEN "done" ELSE "clientClose"
    /\ UNCHANGED << entry, port, serverSocket, recvSize, sentSize, buffer,
                    accepted, boundPort, chunksLeft, terminated >>

\* close(clientSocket);
Client_Close ==
    /\ entry = "client"
    /\ pc = "clientClose"
    /\ calls' = Append(calls, Call("close", clientSocket, 0, 0, << >>))
    /\ listening' = listening \ { clientSocket }
    /\ pc' = "done"
    /\ UNCHANGED << entry, port, serverSocket, clientSocket, recvSize,
                    sentSize, buffer, thrown, log, accepted, boundPort,
                    chunksLeft, terminated >>

-----------------------------------------------------------------------------
Next ==
    \/ Server_NewTcpSocket
    \/ Server_Bind
    \/ Server_Discover
    \/ Server_Listen
    \/ Server_Accept
    \/ Server_Receive
    \/ Server_Send
    \/ Server_CloseClient
    \/ Server_Exit
    \/ Client_NewTcpSocket
    \/ Client_Close

Spec == Init /\ [][Next]_vars

-----------------------------------------------------------------------------
(* Vocabulary of the properties *)

Returned == pc = "done"

IsServer == entry = "server"

Idx == 1..Len(calls)

OpsAt(op) == { i \in Idx : calls[i].op = op }

ClosesOf(fd) == { i \in OpsAt("close") : calls[i].fd = fd }

\* indices of the steps of the server sequence (everything but close)
StepOps == { i \in Idx : calls[i].op # "close" }

EchoOps == OpsAt("recv") \cup OpsAt("send")

\* the number of exceptions raised when call i had completed is not kept in
\* the trace; a call raised an error iff it returned the failure value
FailedAt(i) == calls[i].ret = Failure

LastLog == log[Len(log)]

-----------------------------------------------------------------------------
(* C1: whenever accept returned a descriptor, that descriptor has been      *)
(* closed exactly once when the server entry point returns, on every exit   *)
(* path (disconnect, receive or send error, error raised after accept       *)
(* succeeded).                                                              *)
C1_AcceptedClosedOnce ==
    (IsServer /\ Returned) =>
        \A i \in OpsAt("accept") :
            calls[i].ret >= 0 => Cardinality(ClosesOf(calls[i].ret)) = 1

(* C2: whenever socket creation succeeded in the server (descriptor >= 0,   *)
(* 0 included), the listening descriptor is closed exactly once, after the  *)
(* close of the accepted descriptor, as the last socket action.             *)
C2_ListenerClosedLast ==
    (IsServer /\ Returned /\ calls # << >> /\ calls[1].ret >= 0) =>
        /\ Cardinality(ClosesOf(calls[1].ret)) = 1
        /\ calls[Len(calls)].op = "close"
        /\ calls[Len(calls)].fd = calls[1].ret

(* C3: receive and send strictly alternate: every receive that returned     *)
(* N > 0 is followed, before the next receive, by exactly one send on the   *)
(* same descriptor whose payload is exactly the N bytes received; every     *)
(* send directly follows such a receive, so chunks are echoed in order.     *)
C3_StrictEcho ==
    IsServer =>
        /\ \A i \in OpsAt("recv") :
              calls[i].ret > 0 =>
                 IF i = Len(calls)
                 THEN pc = "send"
                 ELSE /\ calls[i + 1].op = "send"
                      /\ calls[i + 1].fd = calls[i].fd
                      /\ calls[i + 1].arg = calls[i].ret
                      /\ calls[i + 1].data = calls[i].data
        /\ \A j \in OpsAt("send") :
              /\ j > 1
              /\ calls[j - 1].op = "recv"
              /\ calls[j - 1].ret > 0
              /\ Len(calls[j].data) \in 1..(MAX_BUFFER_SIZE - 1)

C3_Witness ==
    /\ Cardinality(OpsAt("send")) = 2
    /\ \E i \in OpsAt("recv") : calls[i].ret = MAX_BUFFER_SIZE - 1
    /\ \E i \in OpsAt("recv") : calls[i].ret = 1
    /\ \E j \in OpsAt("send") : \E k \in 1..Len(calls[j].data) :
          calls[j].data[k] = 0

\* no step of the sequence is issued after a step that raised an error
GateOrder ==
    \A i \in Idx : FailedAt(i) => \A j \in StepOps : j <= i

\* every descriptor acquired by socket() or accept() has been released
AllReleased == listening = {} /\ accepted = {}

(* C4: once a step has raised an error no later step of the sequence        *)
(* (bind, getsockname, listen, accept, recv, send) is executed, while       *)
(* cleanup of the descriptors already acquired still runs.                  *)
C4_GatesAndCleanup ==
    IsServer =>
        /\ ExceptionOccurred(thrown) => pc \in { "closeClient", "exit", "done" }
        /\ GateOrder
        /\ (Returned /\ ExceptionOccurred(thrown)) => AllReleased

(* C5: a receive that returns 0 ends the echo loop at once without error:   *)
(* nothing is raised, "Client disconnected." is logged, no further receive  *)
(* or send is issued, and the server goes on to cleanup and returns.        *)
C5_DisconnectEndsLoop ==
    IsServer =>
        \A i \in OpsAt("recv") :
            calls[i].ret = 0 =>
                /\ thrown = << >>
                /\ \A j \in EchoOps : j <= i
                /\ LastLog = Msg("Client disconnected.", << >>)
                /\ pc \in { "closeClient", "exit", "done" }
                /\ \A j \in Idx : j > i => calls[j].op = "close"
                /\ pc \in { "exit", "done" } =>
                      /\ i < Len(calls)
                      /\ calls[i + 1] = Call("close", calls[i].fd, 0, 0, << >>)

C5_Witness ==
    /\ IsServer /\ Returned
    /\ \E i \in OpsAt("recv") : calls[i].ret = 0
    /\ OpsAt("send") # {}

(* C6: a failing receive or send ends the echo loop at once with exactly    *)
(* one I/O error: no further receive or send is issued and no second error  *)
(* is raised in the invocation.                                             *)
C6_IoFailureEndsLoop ==
    IsServer =>
        \A i \in EchoOps :
            FailedAt(i) =>
                /\ \A j \in EchoOps : j <= i
                /\ Len(thrown) = 1
                /\ thrown[1] = [ cls |-> "java/io/IOException",
                                 at |-> calls[i].op ]
                /\ pc \in { "closeClient", "exit", "done" }

C6_Witness ==
    /\ IsServer /\ Returned
    /\ \E i \in OpsAt("send") : FailedAt(i)
    /\ Cardinality(OpsAt("recv")) = 2

(* C7: when socket creation fails, in the server or in the client entry     *)
(* point, one I/O error is raised, no close is attempted on the invalid     *)
(* handle, no other socket operation is issued, and the entry point         *)
(* returns.                                                                 *)
C7_FactoryFailure ==
    (calls # << >> /\ calls[1].ret = Failure) =>
        /\ Len(calls) = 1
        /\ thrown = << [ cls |-> "java/io/IOException", at |-> "socket" ] >>
        /\ pc \in (IF IsServer THEN { "exit", "done" } ELSE { "done" })
        /\ listening = {} /\ accepted = {}

C7_Witness ==
    /\ Returned
    /\ calls # << >> /\ calls[1].ret = Failure

(* C8: for every requested port p # 0 the port passed to bind equals p, so  *)
(* that after a successful bind the local port equals p.                    *)
C8_BindUsesRequestedPort ==
    (IsServer /\ port # 0) =>
        \A i \in OpsAt("bind") :
            /\ calls[i].arg = port
            /\ calls[i].ret = 0 => boundPort = port

(* C9: Discover runs after a successful bind if and only if the port given  *)
(* to bind was 0, and when it runs it precedes Listen.                      *)
C9_DiscoverIffEphemeral ==
    IsServer =>
        \A i \in OpsAt("bind") :
            (calls[i].ret = 0 /\ i < Len(calls)) =>
                /\ (calls[i + 1].op = "getsockname") <=> (calls[i].arg = 0)
                /\ \A g \in OpsAt("getsockname") : \A l \in OpsAt("listen") :
                      g < l

(* C10: at most one open listening descriptor and at most one open accepted *)
(* descriptor at any time, and accept is called at most once per            *)
(* invocation.                                                              *)
C10_SingleClient ==
    /\ Cardinality(listening) <= 1
    /\ Cardinality(accepted) <= 1
    /\ Cardinality(OpsAt("accept")) <= 1

C10_Witness ==
    /\ IsServer /\ Returned
    /\ Cardinality(OpsAt("accept")) = 1
    /\ Cardinality(OpsAt("recv")) >= 2
    /\ \E i \in OpsAt("accept") : calls[i].ret >= 0

-----------------------------------------------------------------------------
\* every blocking socket call eventually returns: a step that is possible is
\* eventually taken
FairSpec == Spec /\ WF_vars(Next)

(* C11: no socket operation is issued on a descriptor after that descriptor *)
(* has been closed, in the server and in the client entry point.            *)
C11_NoUseAfterClose ==
    \A i \in OpsAt("close") : \A j \in Idx : j > i => calls[j].fd # calls[i].fd

C11_Witness ==
    /\ IsServer /\ Returned
    /\ Cardinality(OpsAt("close")) = 2
    /\ OpsAt("send") # {}

(* C12: the client entry point performs exactly one socket creation and,    *)
(* if creation did not fail, one close of that descriptor (any non-negative *)
(* value); it never issues connect, send or receive, whatever its           *)
(* arguments are.                                                           *)
C12_ClientIsSocketThenClose ==
    (~IsServer /\ Returned) =>
        /\ calls # << >>
        /\ calls[1].op = "socket"
        /\ calls = IF calls[1].ret = Failure THEN << calls[1] >>
                   ELSE << calls[1], Call("close", calls[1].ret, 0, 0, << >>) >>
        /\ listening = {}

C12_Witness ==
    /\ ~IsServer /\ Returned
    /\ Len(calls) = 2
    /\ calls[1].ret = 0
    /\ port # 0

\* the echo loop has been left only after a receive or a send that did not
\* return a positive count
LoopLeftOnlyOnNonPositive ==
    (IsServer /\ OpsAt("recv") # {} /\ pc \in { "closeClient", "exit", "done" })
        => \E i \in EchoOps : calls[i].ret <= 0 /\ \A j \in EchoOps : j <= i

(* C13: when every blocking call eventually returns and the peer sends      *)
(* finitely many chunks, every server invocation eventually returns; the    *)
(* invocation does not leave the echo loop while receives and sends keep    *)
(* returning positive counts.                                               *)
C13_EventuallyReturns ==
    /\ IsServer => <>Returned
    /\ []LoopLeftOnlyOnNonPositive

C13_Witness ==
    /\ IsServer /\ Returned
    /\ Cardinality(OpsAt("send")) = MaxChunks
    /\ chunksLeft = 0

(* C14: a zero-length receive is never forwarded: a send is issued only     *)
(* directly after a receive that returned N > 0, with length exactly N, so  *)
(* every send length lies in 1..79.                                         *)
C14_SendOnlyPositive ==
    \A j \in OpsAt("send") :
        /\ j > 1
        /\ calls[j - 1].op = "recv"
        /\ calls[j - 1].ret > 0
        /\ calls[j].arg = calls[j - 1].ret
        /\ calls[j].arg \in 1..(MAX_BUFFER_SIZE - 1)
        /\ Len(calls[j].data) = calls[j].arg

C14_Witness ==
    /\ \E i \in OpsAt("recv") : calls[i].ret = 0
    /\ \E j \in OpsAt("send") : calls[j].arg = MAX_BUFFER_SIZE - 1
    /\ \E j \in OpsAt("send") : calls[j].arg = 1

ShortSend(j) == calls[j].ret > 0 /\ calls[j].ret < calls[j].arg

(* C15: a short send (0 < M < N) is accepted as success: no error is        *)
(* raised, no second send is issued for the remaining bytes, and the next   *)
(* operation on the connection is a receive.                                *)
C15_ShortSendAccepted ==
    \A j \in OpsAt("send") :
        ShortSend(j) =>
            IF j = Len(calls)
            THEN thrown = << >> /\ pc = "recv"
            ELSE /\ calls[j + 1].op = "recv"
                 /\ calls[j + 1].fd = calls[j].fd
                 /\ \A k \in 1..Len(thrown) :
                       thrown[k].at = "send" =>
                          \E i \in OpsAt("send") : i > j /\ FailedAt(i)

C15_Witness ==
    \E j \in OpsAt("send") :
        /\ ShortSend(j)
        /\ calls[j].arg = MAX_BUFFER_SIZE - 1
        /\ j < Len(calls)

(* C16: a send that returns 0 ends the echo loop as a disconnect does: no   *)
(* error is raised, "Client disconnected." is logged, no further receive    *)
(* is issued, and cleanup closes both descriptors.                          *)
C16_ZeroSendIsDisconnect ==
    \A j \in OpsAt("send") :
        calls[j].ret = 0 =>
            /\ thrown = << >>
            /\ \A k \in EchoOps : k <= j
            /\ LastLog = Msg("Client disconnected.", << >>)
            /\ Returned => AllReleased

AddressLogged == \E k \in 1..Len(log) : log[k].fmt = "%s %s:%hu."

ConversionFailed == \E k \in 1..Len(thrown) : thrown[k].at = "inet_ntop"

(* C17: when accept succeeds but the peer-address conversion fails, exactly *)
(* one I/O error is raised, the peer-address line is not logged, and the    *)
(* Accept Step still hands the valid accepted descriptor to the caller.     *)
C17_ConversionFailureKeepsFd ==
    IsServer =>
        /\ ConversionFailed =>
              /\ Len(thrown) = 1
              /\ ~AddressLogged
              /\ \E i \in OpsAt("accept") :
                    /\ calls[i].ret >= 0
                    /\ clientSocket = calls[i].ret
        /\ \A i \in OpsAt("accept") :
              calls[i].ret >= 0 => (AddressLogged <=> ~ConversionFailed)

C17_Witness ==
    /\ ConversionFailed
    /\ clientSocket >= 0
    /\ pc = "exit"

NonFailingRecvs == { i \in OpsAt("recv") : calls[i].ret # Failure }

(* C18: every receive requests at most capacity - 1 = 79 bytes of the same  *)
(* 80-byte buffer; after every non-failing receive of length n the          *)
(* terminator is written at index n with 0 <= n <= 79; a failing receive    *)
(* writes no terminator.                                                    *)
C18_TerminatorInsideBuffer ==
    /\ DOMAIN buffer = 0..(MAX_BUFFER_SIZE - 1)
    /\ \A i \in OpsAt("recv") :
          /\ calls[i].arg <= MAX_BUFFER_SIZE - 1
          /\ calls[i].ret <= calls[i].arg
    /\ Len(terminated) = Cardinality(NonFailingRecvs)
    /\ \A k \in 1..Len(terminated) :
          /\ terminated[k] \in 0..(MAX_BUFFER_SIZE - 1)
          /\ \E i \in NonFailingRecvs :
                /\ Cardinality({ h \in NonFailingRecvs : h <= i }) = k
                /\ calls[i].ret = terminated[k]
    /\ terminated # << >> => buffer[terminated[Len(terminated)]] = 0

C18_Witness ==
    /\ Len(terminated) = 2
    /\ terminated[1] = MAX_BUFFER_SIZE - 1
    /\ terminated[2] = 1
    /\ \E i \in OpsAt("recv") : calls[i].ret = Failure

====
